---------------------------- MODULE Spec2Model ----------------------------
(***************************************************************************)
(* RISP v2 (Research Index & Stats Program): the paper collection, the     *)
(* text persistence adapter and the interactive session of RISPv2.py.      *)
(*                                                                         *)
(* A Python str is a sequence of one-character strings, a dict is the      *)
(* sequence of its items in insertion order (keys unique), a text file is  *)
(* the sequence of its characters.                                         *)
(***************************************************************************)
EXTENDS Integers, Sequences, FiniteSets, TLC

VARIABLES pc, papers, count, files, out

vars == <<pc, papers, count, files, out>>

---------------------------------------------------------------------------
(* Bounds of the model *)

\* entries typed in get_paper_input before the user types 'done'
MaxPapers == 2

\* entries typed in the analytics session
MaxEntries == 5

---------------------------------------------------------------------------
(* str methods *)

Whitespace == {" ", "\n", "\t"}

Digits == <<"0", "1", "2", "3", "4", "5", "6", "7", "8", "9">>

DigitChars == {Digits[i] : i \in 1..10}

RECURSIVE lstrip(_)
lstrip(s) ==
    IF s # <<>> /\ Head(s) \in Whitespace THEN lstrip(Tail(s)) ELSE s

RECURSIVE rstrip(_)
rstrip(s) ==
    IF s # <<>> /\ s[Len(s)] \in Whitespace
    THEN rstrip(SubSeq(s, 1, Len(s) - 1))
    ELSE s

strip(s) == rstrip(lstrip(s))

Uppercase ==
    <<"A", "B", "C", "D", "E", "F", "G", "H", "I", "J", "K", "L", "M",
      "N", "O", "P", "Q", "R", "S", "T", "U", "V", "W", "X", "Y", "Z">>

Lowercase ==
    <<"a", "b", "c", "d", "e", "f", "g", "h", "i", "j", "k", "l", "m",
      "n", "o", "p", "q", "r", "s", "t", "u", "v", "w", "x", "y", "z">>

lower_char(c) ==
    IF \E i \in 1..26 : Uppercase[i] = c
    THEN Lowercase[CHOOSE i \in 1..26 : Uppercase[i] = c]
    ELSE c

lower(s) == [i \in 1..Len(s) |-> lower_char(s[i])]

isdigit(s) == s # <<>> /\ \A i \in 1..Len(s) : s[i] \in DigitChars

digit_value(c) == (CHOOSE i \in 1..10 : Digits[i] = c) - 1

\* int(s) for a str that passed isdigit
RECURSIVE int(_)
int(s) ==
    IF s = <<>> THEN 0
    ELSE 10 * int(SubSeq(s, 1, Len(s) - 1)) + digit_value(s[Len(s)])

\* str(n), the f-string rendering of a non-negative int
RECURSIVE str(_)
str(n) ==
    IF n < 10 THEN <<Digits[n + 1]>>
    ELSE str(n \div 10) \o <<Digits[(n % 10) + 1]>>

contains(s, c) == \E i \in 1..Len(s) : s[i] = c

\* s.split(c, 1) for a str that contains c: <<before, after>> the first c
split1(s, c) ==
    LET i == CHOOSE k \in 1..Len(s) :
                 s[k] = c /\ \A j \in 1..(k - 1) : s[j] # c
    IN  <<SubSeq(s, 1, i - 1), SubSeq(s, i + 1, Len(s))>>

\* s.split(c): the pieces between the occurrences of c
RECURSIVE split(_, _)
split(s, c) ==
    IF contains(s, c)
    THEN <<split1(s, c)[1]>> \o split(split1(s, c)[2], c)
    ELSE <<s>>

---------------------------------------------------------------------------
(* dict operations, on the sequence of items *)

keys(d) == {d[i].name : i \in 1..Len(d)}

has(d, k) == k \in keys(d)

index_of(d, k) == CHOOSE i \in 1..Len(d) : d[i].name = k

get(d, k) == d[index_of(d, k)].cit

\* d[k] = v : an existing key keeps its place, a new key goes last
setitem(d, k, v) ==
    IF has(d, k)
    THEN [d EXCEPT ![index_of(d, k)] = [name |-> k, cit |-> v]]
    ELSE Append(d, [name |-> k, cit |-> v])

\* del d[k], and the dict that d.pop(k) leaves
delitem(d, k) ==
    LET i == index_of(d, k)
    IN  SubSeq(d, 1, i - 1) \o SubSeq(d, i + 1, Len(d))

\* d.update(e)
RECURSIVE update(_, _)
update(d, e) ==
    IF e = <<>> THEN d
    ELSE update(setitem(d, Head(e).name, Head(e).cit), Tail(e))

values(d) == [i \in 1..Len(d) |-> d[i].cit]

---------------------------------------------------------------------------
(* get_int, get_yes_no: the values the prompt loop can return *)

\* the absent bound of get_int (min_val=None, max_val=None)
None == -1

\* get_int re-prompts until the stripped input is all digits and within the
\* bounds: of the lines the user may type, these are the values it returns
get_int(inputs, min_val, max_val) ==
    {int(strip(r)) : r \in
        {x \in inputs :
            /\ isdigit(strip(x))
            /\ ~ ( \/ (min_val # None /\ int(strip(x)) < min_val)
                   \/ (max_val # None /\ int(strip(x)) > max_val) )}}

\* get_yes_no re-prompts until the stripped, lowered input is 'y' or 'n'
get_yes_no(inputs) ==
    {lower(strip(r)) : r \in
        {x \in inputs : lower(strip(x)) \in {<<"y">>, <<"n">>}}}

---------------------------------------------------------------------------
(* Text persistence *)

\* the text save_papers_to_txt writes: f"{name}|{cit}\n" per item, in order
RECURSIVE save_text(_)
save_text(d) ==
    IF d = <<>> THEN <<>>
    ELSE Head(d).name \o <<"|">> \o str(Head(d).cit) \o <<"\n">>
         \o save_text(Tail(d))

\* iterating a text file: the lines, each with its "\n" (the last may lack it)
RECURSIVE readlines(_)
readlines(text) ==
    IF text = <<>> THEN <<>>
    ELSE IF contains(text, "\n")
         THEN LET parts == split1(text, "\n")
              IN  <<Append(parts[1], "\n")>> \o readlines(parts[2])
         ELSE <<text>>

\* the loop of load_papers_from_txt splitting `line`, not `line.strip()`
RECURSIVE parse_lines_unstripped(_, _)
parse_lines_unstripped(d, lines) ==
    IF lines = <<>> THEN d
    ELSE LET line == Head(lines)
             parts == split1(line, "|")
         IN  IF contains(line, "|") /\ isdigit(parts[2])
             THEN parse_lines_unstripped(
                      setitem(d, parts[1], int(parts[2])), Tail(lines))
             ELSE parse_lines_unstripped(d, Tail(lines))

\* the body of load_papers_from_txt's loop, over the lines read
RECURSIVE parse_lines(_, _)
parse_lines(d, lines) ==
    IF lines = <<>> THEN d
    ELSE LET line == Head(lines)
             parts == split1(strip(line), "|")
         IN  IF contains(line, "|") /\ isdigit(parts[2])
             THEN parse_lines(setitem(d, parts[1], int(parts[2])), Tail(lines))
             ELSE parse_lines(d, Tail(lines))

\* a read that raises no exception
NoFault == -1

\* load_papers_from_txt: the dict it returns and the message it prints.
\* fs is the file system, fault the number of lines read before open() or
\* the iteration raises (NoFault: none is raised); the except clause prints
\* and falls through to `return papers`, the dict built so far.
load_papers_from_txt(fs, filename, fault) ==
    IF filename \notin DOMAIN fs \/ ~ fs[filename].exists
    THEN [papers |-> <<>>, msg |-> "File does not exist."]
    ELSE LET lines == readlines(fs[filename].text)
         IN  IF fault = NoFault
             THEN [papers |-> parse_lines(<<>>, lines),
                   msg |-> "Papers loaded"]
             ELSE [papers |-> parse_lines(<<>>, SubSeq(lines, 1, fault)),
                   msg |-> "Error loading file"]

\* the faults a read of the file can meet
read_faults(fs, filename) ==
    IF filename \in DOMAIN fs /\ fs[filename].exists
    THEN {NoFault} \cup (0..Len(readlines(fs[filename].text)))
    ELSE {NoFault}

\* save_papers_to_txt: the file system it leaves and the message it prints;
\* open(filename, 'w') raises for a name that is no path of the file system
\* (a write that fails half-way is not modelled)
save_papers_to_txt(fs, d, filename) ==
    IF filename \in DOMAIN fs
    THEN [files |-> [fs EXCEPT ![filename] =
                         [exists |-> TRUE, text |-> save_text(d)]],
          msg |-> "Papers saved"]
    ELSE [files |-> fs, msg |-> "Error saving file"]

---------------------------------------------------------------------------
(* Core statistics *)

\* sorted(xs, reverse=True) on ints: a stable insertion into descending order
RECURSIVE insert_desc(_, _)
insert_desc(xs, x) ==
    IF xs = <<>> THEN <<x>>
    ELSE IF Head(xs) >= x THEN <<Head(xs)>> \o insert_desc(Tail(xs), x)
         ELSE <<x>> \o xs

RECURSIVE sorted_desc(_)
sorted_desc(xs) ==
    IF xs = <<>> THEN <<>>
    ELSE insert_desc(sorted_desc(SubSeq(xs, 1, Len(xs) - 1)), xs[Len(xs)])

\* h_loop with `h = c` for `h = i`
RECURSIVE h_loop_stores_count(_, _, _)
h_loop_stores_count(citations, i, h) ==
    IF i > Len(citations) THEN h
    ELSE h_loop_stores_count(citations, i + 1,
                             IF citations[i] >= i THEN citations[i] ELSE h)

\* the loop of h_index from rank i on: h = i whenever citations[i] >= i
RECURSIVE h_loop(_, _, _)
h_loop(citations, i, h) ==
    IF i > Len(citations) THEN h
    ELSE h_loop(citations, i + 1, IF citations[i] >= i THEN i ELSE h)

\* h_index without reverse=True: the counts in ascending order
h_index_ascending(d) ==
    LET desc == sorted_desc(values(d))
    IN  h_loop([i \in 1..Len(desc) |-> desc[Len(desc) + 1 - i]], 1, 0)

h_index(d) == h_loop(sorted_desc(values(d)), 1, 0)

\* sum(1 for c in papers.values() if c >= t)
RECURSIVE count_at_least(_, _)
count_at_least(xs, t) ==
    IF xs = <<>> THEN 0
    ELSE (IF Head(xs) >= t THEN 1 ELSE 0) + count_at_least(Tail(xs), t)

\* sum(1 for c in papers.values() if c >= 10)
RECURSIVE i10_count(_)
i10_count(xs) ==
    IF xs = <<>> THEN 0
    ELSE (IF Head(xs) >= 10 THEN 1 ELSE 0) + i10_count(Tail(xs))

\* i10_index with `c > 10` for `c >= 10`
i10_index_strict(d) == i10_count([i \in 1..Len(d) |-> d[i].cit - 1])

i10_index(d) == i10_count(values(d))

\* {t: count for t in thresholds}: a dict keyed by threshold, so a repeated
\* threshold has one entry
count_above_thresholds(d, thresholds) ==
    [t \in {thresholds[i] : i \in 1..Len(thresholds)} |->
        count_at_least(values(d), t)]

\* get_sorted_papers(papers), mode "citations": items by count descending,
\* equal counts in their former order
RECURSIVE insert_item_desc(_, _)
insert_item_desc(items, x) ==
    IF items = <<>> THEN <<x>>
    ELSE IF Head(items).cit >= x.cit
         THEN <<Head(items)>> \o insert_item_desc(Tail(items), x)
         ELSE <<x>> \o items

RECURSIVE get_sorted_papers(_)
get_sorted_papers(d) ==
    IF d = <<>> THEN <<>>
    ELSE insert_item_desc(get_sorted_papers(SubSeq(d, 1, Len(d) - 1)),
                          d[Len(d)])

RECURSIVE sum(_)
sum(xs) == IF xs = <<>> THEN 0 ELSE Head(xs) + sum(Tail(xs))

RECURSIVE sum_squares(_)
sum_squares(xs) ==
    IF xs = <<>> THEN 0 ELSE Head(xs) * Head(xs) + sum_squares(Tail(xs))

\* max and min of a non-empty sequence
max(xs) == CHOOSE m \in {xs[i] : i \in 1..Len(xs)} :
               \A i \in 1..Len(xs) : xs[i] <= m

min(xs) == CHOOSE m \in {xs[i] : i \in 1..Len(xs)} :
               \A i \in 1..Len(xs) : xs[i] >= m

\* sorted(xs): ascending
sorted_asc(xs) ==
    LET desc == sorted_desc(xs)
    IN  [i \in 1..Len(desc) |-> desc[Len(desc) + 1 - i]]

\* round(mean(xs), 2) of a non-empty sequence, in hundredths: the quotient
\* 100*S/n rounded to the nearest integer, a tie to the even one
mean_x100(xs) ==
    LET n == Len(xs)
        q == (100 * sum(xs)) \div n
        r == (100 * sum(xs)) % n
    IN  IF 2 * r > n \/ (2 * r = n /\ q % 2 = 1) THEN q + 1 ELSE q

\* median(xs) of a non-empty sequence, in halves: the middle value, or the
\* mean of the two middle values
median_x2(xs) ==
    LET s == sorted_asc(xs)
        n == Len(xs)
    IN  IF n % 2 = 1 THEN 2 * s[(n + 1) \div 2]
        ELSE s[n \div 2] + s[(n \div 2) + 1]

\* The outlier tests of generate_summary_report, in exact arithmetic. With
\* n values of sum S and sum of squares Q, mean = S/n and
\* stdev^2 = (n*Q - S^2) / (n*(n-1)), so that
\*   cit > mean + k*stdev  iff  n*cit - S > 0 and
\*                              (n-1)*(n*cit - S)^2 > k^2*n*(n*Q - S^2)
beyond(xs, cit, k) ==
    LET n == Len(xs)
        S == sum(xs)
        Q == sum_squares(xs)
        dev == n * cit - S
    IN  (n - 1) * dev * dev > k * k * n * (n * Q - S * S)

\* the high-outlier test with one standard deviation for two
is_high_outlier_one_sigma(xs, cit) ==
    Len(xs) * cit - sum(xs) > 0 /\ beyond(xs, cit, 1)

is_high_outlier(xs, cit) == Len(xs) * cit - sum(xs) > 0 /\ beyond(xs, cit, 2)

is_low_outlier(xs, cit) == Len(xs) * cit - sum(xs) < 0 /\ beyond(xs, cit, 2)

\* outliers_high and outliers_low: (name, cit) pairs in iteration order
outliers_high(d) ==
    LET high(item) == is_high_outlier(values(d), item.cit)
    IN  IF Len(d) > 1 THEN SelectSeq(d, high) ELSE <<>>

outliers_low(d) ==
    LET low(item) == ~ is_high_outlier(values(d), item.cit)
                     /\ is_low_outlier(values(d), item.cit)
    IN  IF Len(d) > 1 THEN SelectSeq(d, low) ELSE <<>>

zero_cit(d) ==
    LET zero(item) == item.cit = 0
    IN  SelectSeq(d, zero)

\* generate_summary_report: the figures the report is assembled from
\* (the empty collection gets the text "No papers available.")
generate_summary_report(d) ==
    IF d = <<>> THEN <<>>
    ELSE << [total_papers    |-> Len(d),
             total_citations |-> sum(values(d)),
             h_idx           |-> h_index(d),
             i10_idx         |-> i10_index(d),
             avg_citations   |-> mean_x100(values(d)),
             median_citations |-> median_x2(values(d)),
             max_cit         |-> max(values(d)),
             min_cit         |-> min(values(d)),
             range_cit       |-> max(values(d)) - min(values(d)),
             zero_cit        |-> zero_cit(d),
             outliers_high   |-> outliers_high(d),
             outliers_low    |-> outliers_low(d),
             sorted_papers   |-> get_sorted_papers(d)] >>

---------------------------------------------------------------------------
(* Record editor *)

\* the rename branch with `papers[new_name] = papers[name]`: no pop
rename_keeps_old(d, name, action, new_cit, new_name) ==
    IF action = <<"r", "e", "n", "a", "m", "e">> /\ new_name # <<>>
    THEN [papers |-> setitem(d, new_name, get(d, name)),
          msg |-> "Renamed successfully."]
    ELSE [papers |-> d, msg |-> "Invalid action."]

\* the match statement of edit_paper, for a name that is a key: the
\* collection it leaves and the last message printed
apply_action(d, name, action, new_cit, new_name) ==
    CASE action = <<"e", "d", "i", "t">> ->
            [papers |-> setitem(d, name, new_cit),
             msg |-> "Updated successfully."]
      [] action = <<"r", "e", "n", "a", "m", "e">> ->
            IF new_name # <<>>
            THEN [papers |-> setitem(delitem(d, name), new_name, get(d, name)),
                  msg |-> "Renamed successfully."]
            ELSE [papers |-> d, msg |-> "Current Papers"]
      [] action = <<"d", "e", "l", "e", "t", "e">> ->
            [papers |-> delitem(d, name), msg |-> "Deleted successfully."]
      [] OTHER ->
            [papers |-> d, msg |-> "Invalid action."]

\* edit_paper whose "Paper not found." branch lacks its return before an
\* edit, which then stores the count under the absent name
edit_paper_no_return(d, name_line, action_line, new_cit, new_name_line) ==
    IF ~ has(d, strip(name_line))
       /\ lower(strip(action_line)) # <<"e", "d", "i", "t">>
    THEN [papers |-> d, msg |-> "Paper not found."]
    ELSE apply_action(d, strip(name_line), lower(strip(action_line)),
                      new_cit, strip(new_name_line))

\* edit_paper on a non-empty collection. name_line, action_line and
\* new_name_line are the lines typed at its prompts, new_cit the value its
\* get_int returns.
edit_paper(d, name_line, action_line, new_cit, new_name_line) ==
    IF ~ has(d, strip(name_line))
    THEN [papers |-> d, msg |-> "Paper not found."]
    ELSE apply_action(d, strip(name_line), lower(strip(action_line)),
                      new_cit, strip(new_name_line))

---------------------------------------------------------------------------
(* What the user may type *)

\* lines typed at a menu's get_int prompt
ChoiceInputs == {str(n) : n \in 0..18} \cup { <<"x">> }

YesNoInputs == { <<"y">>, <<" ", "N">>, <<"q">> }

\* file names typed: "f" is a path that can be opened, "" is not
FileInputs == { <<"f", " ">>, <<>> }

FileNames == { <<"f">> }

\* what the file may hold when the editing session starts
SessionTexts ==
    { <<"b", "|", "7", "\n",
        "|", "5", "\n",
        "z", "z", "\n",
        " ", "a", "|", "x", "\n">> }

\* what the file may hold when the persistence session starts
StoreTexts ==
    { <<" ", "b", " ", "|", "7", " ", "\n",
        "b", "|", "|", "1", "\n",
        "|", "5">> }

\* the editing session: paper names and counts at get_paper_input's prompts
SessionNames == { <<>>, <<" ", "a">>, <<"D", "o", "n", "e">> }

SessionInts == { <<" ", "3">>, <<"x">>, <<"-", "1">> }

\* lines typed at edit_paper's get_int prompt
EditInts == { <<"0">>, <<"-", "3">> }

\* names typed at edit_paper's first prompt
EditNameInputs == { <<"a">>, <<"b", " ">>, <<"z">>, <<" ">> }

ActionInputs ==
    { <<"e", "d", "i", "t">>, <<" ", "R", "e", "n", "a", "m", "e">>,
      <<"d", "e", "l", "e", "t", "e">>, <<"x">> }

NewNameInputs == { <<" ", "b">>, <<" ">> }

\* the persistence session: a name with a '|', counts of one and two digits
StoreNames == { <<>>, <<"a", " ">>, <<"a", "|", "1">>, <<"d", "o", "n", "e">> }

StoreInts == { <<"0">>, <<"1", "2">> }

\* the analytics session: auto-named papers, counts around the ranks and
\* around the i10 threshold
StatsNames == { <<" ">>, <<"D", "O", "N", "E">> }

StatsInts == { <<"0">>, <<"3">>, <<"1", "0">>, <<"+", "3">> }

\* lines typed at the thresholds prompt
ThresholdInputs ==
    { <<"1", "0">>, <<"3", ",", " ", "1", "0", ",", "3">>,
      <<"x", ",", ",", "1", "1">> }

---------------------------------------------------------------------------
(* The session: RI_v2 *)

Shown(msg, val) == [msg |-> msg, val |-> val]

\* a file that does not exist, and one that holds text
Absent == [exists |-> FALSE, text |-> <<>>]

Holding(text) == [exists |-> TRUE, text |-> text]

\* RI_v2 begins: no paper, and a file system whose file is one of states
Start(states) ==
    /\ pc = "entry"
    /\ papers = <<>>
    /\ count = 1
    /\ out = Shown("RESEARCH INDEX & STATS PROGRAM - VERSION 2", <<>>)
    /\ files \in [FileNames -> states]

Init == Start({Holding(t) : t \in SessionTexts})

\* one turn of get_paper_input's loop that stores a paper, the user typing
\* a name among name_lines and a count among int_lines
get_paper_input(name_lines, int_lines, max_count) ==
    /\ pc = "entry"
    /\ count <= max_count
    /\ \E line \in name_lines :
         LET typed == strip(line)
             name  == IF typed = <<>>
                      THEN <<"P", "a", "p", "e", "r", " ">> \o str(count)
                      ELSE typed
         IN  /\ lower(typed) # <<"d", "o", "n", "e">>
             /\ \E citations \in get_int(int_lines, 0, None) :
                    papers' = setitem(papers, name, citations)
    /\ count' = count + 1
    /\ UNCHANGED <<pc, files, out>>

\* the turn that reads 'done': get_paper_input returns (its counter is
\* gone), and RI_v2 returns at once when no paper was entered
get_paper_input_done ==
    /\ pc = "entry"
    /\ IF papers = <<>>
       THEN /\ pc' = "exit"
            /\ out' = Shown("No papers entered. Exiting program.", <<>>)
       ELSE /\ pc' = "index"
            /\ out' = out
    /\ count' = 0
    /\ UNCHANGED <<papers, files>>

IndexChoices == get_int(ChoiceInputs, 1, 3)

index_menu ==
    /\ pc = "index"
    /\ IF papers = <<>>
       THEN out' = Shown("No papers entered.", <<>>)
       ELSE \E choice \in IndexChoices :
              out' = CASE choice = 1 -> Shown("h-index", <<h_index(papers)>>)
                       [] choice = 2 -> Shown("i10-index", <<i10_index(papers)>>)
                       [] choice = 3 -> Shown("h-index i10-index",
                                              <<h_index(papers), i10_index(papers)>>)
    /\ pc' = "menu"
    /\ UNCHANGED <<papers, count, files>>

\* statistics_menu reads a choice
MenuChoices == get_int(ChoiceInputs, 1, 17)

Chosen(n) == pc = "menu" /\ n \in MenuChoices

\* the prompt that ends a turn of statistics_menu
Continue(shown) ==
    \E cont \in get_yes_no(YesNoInputs) :
        IF cont = <<"n">>
        THEN pc' = "exit" /\ out' = Shown("Exiting statistics menu...", <<>>)
        ELSE pc' = "menu" /\ out' = shown

\* max(), min(), mean(), median() raise on an empty sequence, and nothing
\* in RI_v2 catches it
NeedsValue(shown) ==
    /\ IF papers = <<>>
       THEN pc' = "crashed" /\ out' = Shown("Traceback", <<>>)
       ELSE Continue(shown)
    /\ UNCHANGED <<papers, count, files>>

Case1 ==
    /\ Chosen(1)
    /\ NeedsValue(Shown("Max Citations", <<max(values(papers))>>))

Case2 ==
    /\ Chosen(2)
    /\ NeedsValue(Shown("Min Citations", <<min(values(papers))>>))

Case3 ==
    /\ Chosen(3)
    /\ NeedsValue(Shown("Max Min",
                        <<max(values(papers)), min(values(papers))>>))

Case4 ==
    /\ Chosen(4)
    /\ NeedsValue(Shown("Average Citations", <<mean_x100(values(papers))>>))

Case5 ==
    /\ Chosen(5)
    /\ NeedsValue(Shown("Median Citations", <<median_x2(values(papers))>>))

Case6 ==
    /\ Chosen(6)
    /\ Continue(Shown("Zero-Citation Papers", zero_cit(papers)))
    /\ UNCHANGED <<papers, count, files>>

\* thresholds = [int(t.strip()) for t in line.split(',') if t.strip().isdigit()]
thresholds_of(line) ==
    LET pieces == split(line, ",")
        digits(t) == isdigit(strip(t))
        kept == SelectSeq(pieces, digits)
    IN  [i \in 1..Len(kept) |-> int(strip(kept[i]))]

Case7 ==
    /\ Chosen(7)
    /\ \E line \in ThresholdInputs :
         Continue(Shown("Counts above thresholds",
                        count_above_thresholds(papers, thresholds_of(line))))
    /\ UNCHANGED <<papers, count, files>>

\* {name: c for name, c in papers.items() if low <= c <= high}
range_filter(d, low, high) ==
    LET within(item) == low <= item.cit /\ item.cit <= high
    IN  SelectSeq(d, within)

Case8 ==
    /\ Chosen(8)
    /\ \E low \in get_int(StatsInts, 0, None) :
         \E high \in get_int(StatsInts, low, None) :
            Continue(Shown("Papers with citations",
                           range_filter(papers, low, high)))
    /\ UNCHANGED <<papers, count, files>>

\* dict(list(get_sorted_papers(papers).items())[:N])
top_n(d, N) ==
    SubSeq(get_sorted_papers(d), 1, IF N < Len(d) THEN N ELSE Len(d))

Case9 ==
    /\ Chosen(9)
    /\ \E N \in get_int(StatsInts, 1, None) :
         Continue(Shown("Top N Most Cited Papers", top_n(papers, N)))
    /\ UNCHANGED <<papers, count, files>>

Case10 ==
    /\ Chosen(10)
    /\ Continue(Shown("RESEARCH PAPER STATISTICS",
                      generate_summary_report(papers)))
    /\ UNCHANGED <<papers, count, files>>

\* the report's lines that hold "Outliers": none for the empty collection
Case16 ==
    /\ Chosen(16)
    /\ LET report == generate_summary_report(papers)
       IN  Continue(Shown("Outlier Information",
                          IF report = <<>> THEN <<>>
                          ELSE <<report[1].outliers_high,
                                 report[1].outliers_low>>))
    /\ UNCHANGED <<papers, count, files>>

Case11 ==
    /\ Chosen(11)
    /\ \E ans \in get_yes_no(YesNoInputs), line \in FileInputs :
         LET saved == save_papers_to_txt(files, papers, strip(line))
         IN  IF ans = <<"y">>
             THEN files' = saved.files /\ Continue(Shown(saved.msg, <<>>))
             ELSE files' = files /\ Continue(out)
    /\ UNCHANGED <<papers, count>>

Case13 ==
    /\ Chosen(13)
    /\ IF papers = <<>>
       THEN papers' = papers /\ Continue(Shown("No papers to edit.", <<>>))
       ELSE \E name \in EditNameInputs, action \in ActionInputs,
               new_cit \in get_int(EditInts, 0, None),
               new_name \in NewNameInputs :
              LET r == edit_paper(papers, name, action, new_cit, new_name)
              IN  papers' = r.papers /\ Continue(Shown(r.msg, <<>>))
    /\ UNCHANGED <<count, files>>

Case14 ==
    /\ Chosen(14)
    /\ \E line \in FileInputs :
         \E fault \in read_faults(files, strip(line)) :
            LET loaded == load_papers_from_txt(files, strip(line), fault)
            IN  /\ papers' = update(papers, loaded.papers)
                /\ Continue(Shown(loaded.msg, <<>>))
    /\ UNCHANGED <<count, files>>

Case15 ==
    /\ Chosen(15)
    /\ \E line \in FileInputs :
         LET saved == save_papers_to_txt(files, papers, strip(line))
         IN  files' = saved.files /\ Continue(Shown(saved.msg, <<>>))
    /\ UNCHANGED <<papers, count>>

Case17 ==
    /\ Chosen(17)
    /\ pc' = "exit"
    /\ out' = Shown("Exiting statistics menu...", <<>>)
    /\ UNCHANGED <<papers, count, files>>

\* Choice 12 (the summary report written to a file) leaves the collection
\* alone and is modelled in none of the sessions below.

\* The editing session: papers are entered, loaded, edited, renamed and
\* deleted, and the statistics that need a value are asked for.
Next ==
    \/ get_paper_input(SessionNames, SessionInts, MaxPapers)
    \/ get_paper_input_done
    \/ index_menu
    \/ Case1 \/ Case2 \/ Case3 \/ Case4 \/ Case5
    \/ Case13 \/ Case14 \/ Case17

Spec == Init /\ [][Next]_vars

\* The persistence session: papers are entered, saved and loaded.
NextStore ==
    \/ get_paper_input(StoreNames, StoreInts, MaxPapers)
    \/ get_paper_input_done
    \/ index_menu
    \/ Case11 \/ Case14 \/ Case15 \/ Case17

InitStore == Start({Absent} \cup {Holding(t) : t \in StoreTexts})

SpecStore == InitStore /\ [][NextStore]_vars

\* The analytics session: papers are entered and the indexes, counts,
\* filters, rankings and reports displayed.
NextStats ==
    \/ get_paper_input(StatsNames, StatsInts, MaxEntries)
    \/ get_paper_input_done
    \/ index_menu
    \/ Case6 \/ Case7 \/ Case8 \/ Case9 \/ Case10 \/ Case16 \/ Case17

InitStats == Start({Absent})

SpecStats == InitStats /\ [][NextStats]_vars

---------------------------------------------------------------------------
(* Index calculator *)

\* the number of papers of d with at least h citations
papers_with_at_least(d, h) == Cardinality({i \in 1..Len(d) : d[i].cit >= h})

\* the values h such that at least h papers of d have h citations or more
h_candidates(d) == {h \in 0..Len(d) : papers_with_at_least(d, h) >= h}

\* C1: h_index returns the largest h such that at least h papers each have
\* h citations or more, 0 for the empty collection and for one whose counts
\* are all 0; the h-index that index_menu displays is that maximum.
C1_HIndexIsMaximum ==
    /\ h_index(papers) \in h_candidates(papers)
    /\ \A h \in h_candidates(papers) : h <= h_index(papers)
    /\ (\A i \in 1..Len(papers) : papers[i].cit = 0) => h_index(papers) = 0
    /\ out.msg = "h-index" =>
           /\ out.val[1] \in h_candidates(papers)
           /\ \A h \in h_candidates(papers) : h <= out.val[1]

\* index_menu has displayed an h-index of 3 for five papers entered out of
\* order, two of which fall below it
C1_Witness ==
    /\ out.msg = "h-index"
    /\ out.val = <<3>>
    /\ Len(papers) = 5
    /\ values(papers) # sorted_desc(values(papers))
    /\ papers_with_at_least(papers, 3) = 3

\* how far above its count a paper's count is raised
MaxRaise == 5

\* C2: h_index is at most the number of papers, and storing a higher count
\* for any one paper (papers[name] = new_cit, the rest unchanged) never
\* lowers it.
C2_HIndexBoundedAndMonotone ==
    /\ h_index(papers) <= Len(papers)
    /\ \A i \in 1..Len(papers) :
         \A raise \in 0..MaxRaise :
            h_index(setitem(papers, papers[i].name, papers[i].cit + raise))
                >= h_index(papers)

\* a collection of three papers or more whose h-index is below its size and
\* rises when one count is raised
C2_Witness ==
    /\ pc = "menu"
    /\ Len(papers) >= 3
    /\ h_index(papers) < Len(papers)
    /\ \E i \in 1..Len(papers) :
         h_index(setitem(papers, papers[i].name, papers[i].cit + MaxRaise))
             > h_index(papers)

\* C3: i10_index equals count_above_thresholds(collection, [10])[10], and
\* both equal the number of papers with 10 citations or more; the figures
\* that index_menu and the thresholds choice display agree with it.
C3_I10IsCountAtThresholdTen ==
    /\ i10_index(papers) = count_above_thresholds(papers, <<10>>)[10]
    /\ i10_index(papers) = papers_with_at_least(papers, 10)
    /\ papers = <<>> => i10_index(papers) = 0
    /\ out.msg = "i10-index" => out.val[1] = papers_with_at_least(papers, 10)
    /\ (out.msg = "Counts above thresholds" /\ 10 \in DOMAIN out.val) =>
           out.val[10] = i10_index(papers)

\* the thresholds choice has displayed the count for threshold 10 of a
\* collection that holds a paper of exactly 10 citations and one below
C3_Witness ==
    /\ out.msg = "Counts above thresholds"
    /\ 10 \in DOMAIN out.val
    /\ out.val[10] = 2
    /\ \E i \in 1..Len(papers) : papers[i].cit = 10
    /\ \E i \in 1..Len(papers) : papers[i].cit < 10

---------------------------------------------------------------------------
(* Outlier detector *)

\* C10: for a collection of at most 5 papers the outlier detection of
\* generate_summary_report reports no high and no low outlier, whatever the
\* counts: (n-1)*(n*c - S)^2 > 4*n*(n*Q - S^2) holds of no count c; the
\* detection is skipped for fewer than 2 papers.
C10_NoOutlierUpToFivePapers ==
    Len(papers) <= 5 =>
        /\ outliers_high(papers) = <<>>
        /\ outliers_low(papers) = <<>>
        /\ \A i \in 1..Len(papers) :
               ~ beyond(values(papers), papers[i].cit, 2)
        /\ out.msg = "Outlier Information" => out.val = << <<>>, <<>> >>
        /\ out.msg = "RESEARCH PAPER STATISTICS" =>
               /\ out.val[1].outliers_high = <<>>
               /\ out.val[1].outliers_low = <<>>

\* the outlier choice has reported on five papers, one with 10 citations
\* and four with none
C10_Witness ==
    /\ out.msg = "Outlier Information"
    /\ Len(papers) = 5
    /\ sum(values(papers)) = 10
    /\ max(values(papers)) = 10

---------------------------------------------------------------------------
(* Paper collection *)

\* C4: in every state of the session every key of the collection is a
\* non-empty string and every citation count is an integer >= 0.
C4_KeysNonEmptyCountsNonNegative ==
    \A i \in 1..Len(papers) :
        /\ papers[i].name # <<>>
        /\ papers[i].cit \in Nat

\* the two dicts hold the same keys with the same counts
same_mapping(d, e) ==
    /\ keys(d) = keys(e)
    /\ \A k \in keys(d) : get(d, k) = get(e, k)

---------------------------------------------------------------------------
(* Text persistence adapter *)

---------------------------------------------------------------------------
(* Record editor *)

EditActions ==
    { <<"e", "d", "i", "t">>, <<"r", "e", "n", "a", "m", "e">>,
      <<"d", "e", "l", "e", "t", "e">> }

\* C6: edit_paper, given a name that is no key of the collection, or a key
\* and an action other than 'edit', 'rename', 'delete', reports the failure
\* and leaves the collection as it was: same keys, counts and order.
C6_FailedEditLeavesCollection ==
    \A name \in EditNameInputs, action \in ActionInputs,
       new_name \in NewNameInputs :
        \A new_cit \in get_int(EditInts, 0, None) :
            LET r == edit_paper(papers, name, action, new_cit, new_name)
            IN  /\ ~ has(papers, strip(name)) =>
                       r.papers = papers /\ r.msg = "Paper not found."
                /\ (has(papers, strip(name))
                    /\ lower(strip(action)) \notin EditActions) =>
                       r.papers = papers /\ r.msg = "Invalid action."

\* edit_paper has reported a name that is no key of a collection of two
\* papers or more
C6_Witness ==
    /\ out.msg = "Paper not found."
    /\ Len(papers) >= 2
    /\ \E name \in EditNameInputs : ~ has(papers, strip(name))

\* edit_paper has reported an action it does not know
C6_WitnessInvalidAction ==
    /\ out.msg = "Invalid action."
    /\ \E name \in EditNameInputs : has(papers, strip(name))

---------------------------------------------------------------------------
(* Error handling *)

\* C7: a load that fails (the file is missing, or an error is raised while
\* it is opened or read, also after some lines were parsed) leaves the
\* collection of the session as it was before the load step.
C7_FailedLoadLeavesCollection ==
    [][ (pc = "menu" /\ pc' = "menu"
         /\ out'.msg \in {"Error loading file", "File does not exist."})
        => papers' = papers ]_vars

\* C8: the statistics that need a value (choices 1 to 5) are only asked of
\* a non-empty collection: no choice ends the session with an exception.
C8_NoAbnormalTermination == pc # "crashed"

---------------------------------------------------------------------------
(* Rename *)

\* C9: edit_paper renaming the key `old` to a non-blank `new`: afterwards
\* `new` maps to the count `old` had, `old` is no key unless new = old, and
\* every other entry keeps its count; a different key `new` that existed
\* is replaced and the collection has one entry fewer, otherwise as many
\* entries as before; renaming a paper to its own name leaves the mapping
\* equal.
C9_Rename ==
    \A name \in EditNameInputs, new_name \in NewNameInputs :
        \A new_cit \in get_int(EditInts, 0, None) :
            LET old == strip(name)
                new == strip(new_name)
                r   == edit_paper(papers, name, <<"r", "e", "n", "a", "m", "e">>,
                                  new_cit, new_name).papers
            IN  (has(papers, old) /\ new # <<>>) =>
                    /\ has(r, new) /\ get(r, new) = get(papers, old)
                    /\ new # old => ~ has(r, old)
                    /\ keys(r) = (keys(papers) \ {old}) \cup {new}
                    /\ \A k \in keys(papers) \ {old, new} :
                           get(r, k) = get(papers, k)
                    /\ Cardinality(keys(r)) = Len(r)
                    /\ Len(r) = IF has(papers, new) /\ new # old
                                THEN Len(papers) - 1
                                ELSE Len(papers)
                    /\ new = old => same_mapping(r, papers)

\* a rename has just replaced the loaded "b" (7 citations) by the entered
\* "a" (3 citations): "b" has 3, "a" is gone, the unnamed paper is untouched
C9_Witness ==
    /\ out.msg = "Renamed successfully."
    /\ papers = << [name |-> <<"b">>, cit |-> 3], [name |-> <<>>, cit |-> 5] >>

=============================================================================
